---- MODULE Spec2Model ----
(***************************************************************************)
(* Model of signer/fourbyte/4byte.py: the script that reads 4byte.json,    *)
(* recomputes the 4-byte selector of every signature and writes            *)
(* new4byte.json.                                                          *)
(*                                                                         *)
(* Text is a sequence of characters, each character a one-element string.  *)
(* A character outside ASCII is named by its code point ("U+00E9").        *)
(* A run is one execution of the script; the runs share the file           *)
(* new4byte.json of the working directory.                                 *)
(***************************************************************************)
EXTENDS Integers, Sequences, FiniteSets

\* ------------------------------------------------------------------ bounds

\* Entries of the input mapping of a run that runs alone.
MaxEntries == 2

\* Entries of the input mapping of each of two runs sharing the output path.
MaxSharedEntries == 1

\* ------------------------------------------------------------ characters

EAcute == "U+00E9"

\* A lone surrogate, which json.load produces from the escape \ud800.
Surrogate == "U+D800"

Quote == "\""

NUL == "U+0000"

\* ------------------------------------------------------------ signatures

SigTransfer == <<"t", "r", "a", "n", "s", "f", "e", "r", "(", "a", "d", "d", "r", "e", "s", "s", ",", "u", "i", "n", "t", "2", "5", "6", ")">>

\* Its selector collides with that of SigTransfer.
SigBabbage == <<"m", "a", "n", "y", "_", "m", "s", "g", "_", "b", "a", "b", "b", "a", "g", "e", "(", "b", "y", "t", "e", "s", "1", ")">>

\* A non-ASCII character and an embedded double quote.
SigQuote == <<EAcute, Quote>>

SigSurrogate == <<Surrogate>>

\* JSON values of the input mapping: strings, and a number. The signatures
\* are function signatures: none holds a line feed, so that an entry of the
\* output is one line of it.
JsonString(chars) == [type |-> "string", chars |-> chars]

JsonNumber == [type |-> "number", chars |-> <<"1">>]

Values == {JsonString(SigTransfer), JsonString(SigBabbage), JsonString(SigQuote),
           JsonString(SigSurrogate), JsonNumber}

SharedValues == {JsonString(SigTransfer), JsonString(SigQuote), JsonNumber}

\* Keys of the input mapping: the selectors the input file claims.
Selectors == {<<"d", "e", "a", "d", "b", "e", "e", "f">>,
              <<"0", "0", "0", "0", "0", "0", "0", "0">>,
              <<"a", "9", "0", "5", "9", "c", "b", "b">>}

SharedSelectors == {<<"d", "e", "a", "d", "b", "e", "e", "f">>,
                    <<"a", "9", "0", "5", "9", "c", "b", "b">>}

\* ------------------------------------------------------- pure functions

\* str.encode('utf-8') of one character.
Utf8Char(ch) ==
  CASE ch = Quote -> <<34>>
    [] ch = "(" -> <<40>>
    [] ch = ")" -> <<41>>
    [] ch = "," -> <<44>>
    [] ch = "1" -> <<49>>
    [] ch = "2" -> <<50>>
    [] ch = "5" -> <<53>>
    [] ch = "6" -> <<54>>
    [] ch = "_" -> <<95>>
    [] ch = "a" -> <<97>>
    [] ch = "b" -> <<98>>
    [] ch = "d" -> <<100>>
    [] ch = "e" -> <<101>>
    [] ch = "f" -> <<102>>
    [] ch = "g" -> <<103>>
    [] ch = "i" -> <<105>>
    [] ch = "m" -> <<109>>
    [] ch = "n" -> <<110>>
    [] ch = "r" -> <<114>>
    [] ch = "s" -> <<115>>
    [] ch = "t" -> <<116>>
    [] ch = "u" -> <<117>>
    [] ch = "y" -> <<121>>
    [] ch = EAcute -> <<195, 169>>

RECURSIVE Utf8(_)
\* signature.encode('utf-8')
Utf8(chars) ==
  IF chars = <<>> THEN <<>>
  ELSE Utf8Char(Head(chars)) \o Utf8(Tail(chars))

\* Whether .encode('utf-8') succeeds: a surrogate raises UnicodeEncodeError.
Utf8Encodable(chars) == \A i \in 1..Len(chars) : chars[i] # Surrogate

\* sha3.keccak_256().update(data).hexdigest(): the library's Keccak-256, as
\* the table of its 64-character digests of the byte strings of the model.
KeccakHexdigest(data) ==
  CASE data = <<116, 114, 97, 110, 115, 102, 101, 114, 40, 97, 100, 100, 114, 101, 115, 115, 44, 117, 105, 110, 116, 50, 53, 54, 41>> ->
       <<"a", "9", "0", "5", "9", "c", "b", "b", "2", "a", "b", "0", "9", "e", "b", "2", "1", "9", "5", "8", "3", "f", "4", "a", "5", "9", "a", "5", "d", "0", "6", "2", "3", "a", "d", "e", "3", "4", "6", "d", "9", "6", "2", "b", "c", "d", "4", "e", "4", "6", "b", "1", "1", "d", "a", "0", "4", "7", "c", "9", "0", "4", "9", "b">>
    [] data = <<109, 97, 110, 121, 95, 109, 115, 103, 95, 98, 97, 98, 98, 97, 103, 101, 40, 98, 121, 116, 101, 115, 49, 41>> ->
       <<"a", "9", "0", "5", "9", "c", "b", "b", "c", "c", "9", "a", "e", "f", "9", "d", "c", "d", "d", "b", "4", "b", "e", "d", "0", "a", "2", "5", "3", "9", "b", "f", "d", "1", "8", "8", "9", "3", "3", "f", "c", "7", "1", "5", "3", "8", "6", "d", "f", "8", "9", "9", "2", "8", "f", "9", "5", "4", "3", "3", "5", "f", "f", "3">>
    [] data = <<195, 169, 34>> ->
       <<"d", "e", "a", "a", "d", "d", "0", "2", "9", "1", "6", "e", "d", "1", "8", "9", "7", "d", "e", "7", "b", "f", "5", "0", "1", "4", "3", "c", "a", "f", "4", "5", "1", "7", "7", "2", "9", "8", "d", "d", "5", "5", "5", "6", "8", "e", "3", "e", "5", "5", "b", "f", "b", "9", "b", "f", "c", "7", "2", "7", "5", "8", "d", "a">>

\* def calculate_4byte_selector(signature): ... hexdigest()[:8]
calculate_4byte_selector(signature) ==
  SubSeq(KeccakHexdigest(Utf8(signature)), 1, 8)

\* Whether calculate_4byte_selector(value) returns: a value that is no str
\* has no .encode (AttributeError), a str with a surrogate does not encode.
SelectorComputable(value) ==
  value.type = "string" /\ Utf8Encodable(value.chars)

\* A variant that escapes the signature as a JSON serializer would.
RECURSIVE EscapeJson(_)
EscapeJson(chars) ==
  IF chars = <<>> THEN <<>>
  ELSE (IF Head(chars) = Quote THEN <<"\\", Quote>> ELSE <<Head(chars)>>)
       \o EscapeJson(Tail(chars))

FormatEntryEscaped(correct_selector, signature) ==
  <<Quote>> \o correct_selector \o <<Quote, ":", " ", Quote>>
    \o EscapeJson(signature) \o <<Quote>>

\* f'"{correct_selector}": "{signature}"'
FormatEntry(correct_selector, signature) ==
  <<Quote>> \o correct_selector \o <<Quote, ":", " ", Quote>>
    \o signature \o <<Quote>>

\* A variant that keeps the key of the input file.
NewEntryKeepsKey(wrong_selector, signature) ==
  FormatEntry(wrong_selector, signature)

\* The body of the loop: the string appended for one item of the mapping.
NewEntry(wrong_selector, signature) ==
  FormatEntry(calculate_4byte_selector(signature), signature)

\* A variant that puts the new entry first.
AppendEntryFirst(list, entry) == <<entry>> \o list

\* A variant that keeps one entry per selector, as a dict would.
AppendEntryDedup(list, entry) ==
  SelectSeq(list, LAMBDA e : SubSeq(e, 1, 10) # SubSeq(entry, 1, 10)) \o <<entry>>

\* new_4byte_json.append(...)
AppendEntry(list, entry) == Append(list, entry)

RECURSIVE Join(_, _)
\* sep.join(list)
Join(sep, list) ==
  IF list = <<>> THEN <<>>
  ELSE IF Len(list) = 1 THEN list[1]
  ELSE list[1] \o sep \o Join(sep, Tail(list))

\* The three texts the script writes.
Write1Text == <<"{", "\n">>

Write2Text(list) == Join(<<",", "\n">>, list)

Write3TextNoNewline == <<"}">>

Write3Text == <<"\n", "}">>

\* A write of data at offset pos of a file: a gap past the end reads as NULs.
WriteAt(content, pos, data) ==
  [i \in 1..(IF Len(content) > pos + Len(data) THEN Len(content) ELSE pos + Len(data)) |->
     IF i > pos /\ i <= pos + Len(data) THEN data[i - pos]
     ELSE IF i <= Len(content) THEN content[i]
     ELSE NUL]

\* ------------------------------------------------------------- input files

SeqsUpTo(S, n) == UNION {[1..k -> S] : k \in 0..n}

\* The mappings json.load can return: a dict has each key once, and iterates
\* in the order of the file.
Mappings(keys, values, n) ==
  {m \in SeqsUpTo([key : keys, value : values], n) :
     \A i, j \in 1..Len(m) : i # j => m[i].key # m[j].key}

\* What 4byte.json holds when a run reads it: nothing (no such file), text
\* that is not JSON, a JSON array, or a JSON object.
InputFiles(keys, values, n) ==
  {[kind |-> k, items |-> <<>>] : k \in {"missing", "malformed", "array"}}
    \cup {[kind |-> "object", items |-> m] : m \in Mappings(keys, values, n)}

\* Content new4byte.json may hold before a run: none, or a text longer than
\* any output of the model (an entry and its separator are at most 41
\* characters, the braces and their line feeds 4).
StaleContent == [i \in 1..(45 * (MaxEntries + MaxSharedEntries)) |-> "#"]

OldFiles == {<<>>, StaleContent}

Runs == {1, 2}

\* ------------------------------------------------------------------ state

VARIABLES
  inputFile,            \* [Runs -> InputFiles]: 4byte.json as each run finds it
  oldFile,              \* new4byte.json before the first run
  outFile,              \* new4byte.json on disk
  pc,                   \* the statement each run is at
  inOpen,               \* whether the run holds 4byte.json open
  function_signatures,  \* the value json.load returned
  new_4byte_json,       \* the list of formatted entries
  consumed,             \* items the for loop has taken from .items()
  outOpen,              \* whether the run holds new4byte.json open
  pos,                  \* the offset of the run's handle of new4byte.json
  buf,                  \* text written to the handle and not yet on disk
  stdout,               \* the messages each run printed
  failure,              \* the statement whose exception ended the run
  opens,                \* times the run opened new4byte.json
  closes,               \* times the run closed new4byte.json
  closedContent,        \* new4byte.json as it was when the run closed it
  lastWriter,           \* the run whose bytes reached new4byte.json last
  overlap,              \* whether a run opened new4byte.json while another held it
  startedAfter          \* the runs that had ended when each run started

vars == <<inputFile, oldFile, outFile, pc, inOpen, function_signatures,
          new_4byte_json, consumed, outOpen, pos, buf, stdout, failure, opens,
          closes, closedContent, lastWriter, overlap, startedAfter>>

SuccessMessage == "Successfully recalculated the 4-byte selectors and saved the result to new4byte.json."

Unset == [kind |-> "unset", items |-> <<>>]

InitRuns ==
  /\ outFile = oldFile
  /\ pc = [r \in Runs |-> "open_input"]
  /\ inOpen = [r \in Runs |-> FALSE]
  /\ function_signatures = [r \in Runs |-> Unset]
  /\ new_4byte_json = [r \in Runs |-> <<>>]
  /\ consumed = [r \in Runs |-> 0]
  /\ outOpen = [r \in Runs |-> FALSE]
  /\ pos = [r \in Runs |-> 0]
  /\ buf = [r \in Runs |-> <<>>]
  /\ stdout = [r \in Runs |-> <<>>]
  /\ failure = [r \in Runs |-> "none"]
  /\ opens = [r \in Runs |-> 0]
  /\ closes = [r \in Runs |-> 0]
  /\ closedContent = [r \in Runs |-> <<>>]
  /\ lastWriter = 0
  /\ overlap = FALSE
  /\ startedAfter = [r \in Runs |-> {}]

\* One run of the script.
Init ==
  /\ inputFile \in [Runs -> InputFiles(Selectors, Values, MaxEntries)]
  /\ inputFile[2] = inputFile[1]
  /\ oldFile \in OldFiles
  /\ InitRuns

\* Two runs of the script in one working directory; 4byte.json may have been
\* edited between their reads.
InitShared ==
  /\ inputFile \in [Runs -> InputFiles(SharedSelectors, SharedValues, MaxSharedEntries)]
  /\ oldFile \in OldFiles
  /\ InitRuns

\* ---------------------------------------------------------------- actions

\* An uncaught exception at the statement named by stage ends the run.
Raise(r, stage) ==
  /\ pc' = [pc EXCEPT ![r] = "failed"]
  /\ failure' = [failure EXCEPT ![r] = stage]

Ended(r) == pc[r] \in {"done", "failed"}

\* with open('4byte.json', 'r') as file:
OpenInput(r) ==
  /\ pc[r] = "open_input"
  /\ startedAfter' = [startedAfter EXCEPT ![r] = {s \in Runs : Ended(s)}]
  /\ IF inputFile[r].kind = "missing"
     THEN /\ Raise(r, "open_input")
          /\ UNCHANGED inOpen
     ELSE /\ inOpen' = [inOpen EXCEPT ![r] = TRUE]
          /\ pc' = [pc EXCEPT ![r] = "json_load"]
          /\ UNCHANGED failure
  /\ UNCHANGED <<inputFile, oldFile, outFile, function_signatures, new_4byte_json,
                 consumed, outOpen, pos, buf, stdout, opens, closes,
                 closedContent, lastWriter, overlap>>

\* function_signatures = json.load(file), and the end of the with block.
JsonLoad(r) ==
  /\ pc[r] = "json_load"
  /\ inOpen' = [inOpen EXCEPT ![r] = FALSE]
  /\ IF inputFile[r].kind = "malformed"
     THEN /\ Raise(r, "json_load")
          /\ UNCHANGED function_signatures
     ELSE /\ function_signatures' = [function_signatures EXCEPT ![r] = inputFile[r]]
          /\ pc' = [pc EXCEPT ![r] = "items"]
          /\ UNCHANGED failure
  /\ UNCHANGED <<inputFile, oldFile, outFile, new_4byte_json, consumed, outOpen,
                 pos, buf, stdout, opens, closes, closedContent, lastWriter,
                 overlap, startedAfter>>

\* A variant with the open of new4byte.json moved above the loop.
StartLoopOpensOutput(r) ==
  /\ pc[r] = "items"
  /\ new_4byte_json' = [new_4byte_json EXCEPT ![r] = <<>>]
  /\ outFile' = <<>>
  /\ outOpen' = [outOpen EXCEPT ![r] = TRUE]
  /\ opens' = [opens EXCEPT ![r] = @ + 1]
  /\ IF function_signatures[r].kind # "object"
     THEN Raise(r, "items")
     ELSE /\ pc' = [pc EXCEPT ![r] = "loop"]
          /\ UNCHANGED failure
  /\ UNCHANGED <<inputFile, oldFile, inOpen, function_signatures, consumed, pos,
                 buf, stdout, closes, closedContent, lastWriter, overlap,
                 startedAfter>>

\* new_4byte_json = [] and function_signatures.items(), which only a dict has.
StartLoop(r) ==
  /\ pc[r] = "items"
  /\ new_4byte_json' = [new_4byte_json EXCEPT ![r] = <<>>]
  /\ IF function_signatures[r].kind # "object"
     THEN Raise(r, "items")
     ELSE /\ pc' = [pc EXCEPT ![r] = "loop"]
          /\ UNCHANGED failure
  /\ UNCHANGED <<inputFile, oldFile, outFile, inOpen, function_signatures,
                 consumed, outOpen, pos, buf, stdout, opens, closes,
                 closedContent, lastWriter, overlap, startedAfter>>

\* Whether the for loop has taken every item.
LoopExhausted(r) == consumed[r] = Len(function_signatures[r].items)

\* One pass of the for loop: the next item, its selector, the append; or the
\* end of the loop.
LoopStep(r) ==
  /\ pc[r] = "loop"
  /\ IF LoopExhausted(r)
     THEN /\ pc' = [pc EXCEPT ![r] = "open_output"]
          /\ UNCHANGED <<new_4byte_json, consumed, failure>>
     ELSE LET item == function_signatures[r].items[consumed[r] + 1] IN
          /\ consumed' = [consumed EXCEPT ![r] = @ + 1]
          /\ IF SelectorComputable(item.value)
             THEN /\ new_4byte_json' =
                       [new_4byte_json EXCEPT ![r] =
                          AppendEntry(@, NewEntry(item.key, item.value.chars))]
                  /\ UNCHANGED <<pc, failure>>
             ELSE /\ Raise(r, "calculate_4byte_selector")
                  /\ UNCHANGED new_4byte_json
  /\ UNCHANGED <<inputFile, oldFile, outFile, inOpen, function_signatures,
                 outOpen, pos, buf, stdout, opens, closes, closedContent,
                 lastWriter, overlap, startedAfter>>

\* What open(..., 'w') leaves of the file: a variant that does not truncate.
OpenedContentKept(content) == content

\* What open(..., 'w') leaves of the file: nothing.
OpenedContent(content) == <<>>

\* with open('new4byte.json', 'w') as new_file: the open creates or truncates
\* the file, or raises (no permission, no such directory) and leaves it.
OpenOutput(r) ==
  /\ pc[r] = "open_output"
  /\ \E ok \in BOOLEAN :
       IF ok
       THEN /\ outFile' = OpenedContent(outFile)
            /\ outOpen' = [outOpen EXCEPT ![r] = TRUE]
            /\ pos' = [pos EXCEPT ![r] = 0]
            /\ buf' = [buf EXCEPT ![r] = <<>>]
            /\ opens' = [opens EXCEPT ![r] = @ + 1]
            /\ overlap' = (overlap \/ \E s \in Runs \ {r} : outOpen[s])
            /\ pc' = [pc EXCEPT ![r] = "write1"]
            /\ UNCHANGED failure
       ELSE /\ Raise(r, "open_output")
            /\ UNCHANGED <<outFile, outOpen, pos, buf, opens, overlap>>
  /\ UNCHANGED <<inputFile, oldFile, inOpen, function_signatures, new_4byte_json,
                 consumed, stdout, closes, closedContent, lastWriter,
                 startedAfter>>

\* The close that ends the with block when a statement of it raised: the
\* buffered text reaches the disk, or the flush fails too and it is lost.
CloseOnError(r) ==
  /\ \E flushed \in BOOLEAN :
       IF flushed /\ buf[r] # <<>>
       THEN /\ outFile' = WriteAt(outFile, pos[r], buf[r])
            /\ lastWriter' = r
       ELSE UNCHANGED <<outFile, lastWriter>>
  /\ pos' = [pos EXCEPT ![r] = @ + Len(buf[r])]
  /\ buf' = [buf EXCEPT ![r] = <<>>]
  /\ outOpen' = [outOpen EXCEPT ![r] = FALSE]
  /\ closes' = [closes EXCEPT ![r] = @ + 1]
  /\ Raise(r, "write")

\* new_file.write(text): the text joins the buffer of the handle, or the call
\* raises (the text does not encode in the locale's encoding, the disk is full)
\* and the with block closes the file.
WriteCall(r, text, next) ==
  /\ \/ /\ buf' = [buf EXCEPT ![r] = @ \o text]
        /\ pc' = [pc EXCEPT ![r] = next]
        /\ UNCHANGED <<outFile, pos, outOpen, closes, failure, lastWriter>>
     \/ CloseOnError(r)
  /\ UNCHANGED <<inputFile, oldFile, inOpen, function_signatures, new_4byte_json,
                 consumed, stdout, opens, closedContent, overlap, startedAfter>>

\* new_file.write("{\n")
Write1(r) ==
  /\ pc[r] = "write1"
  /\ WriteCall(r, Write1Text, "write2")

\* new_file.write(",\n".join(new_4byte_json))
Write2(r) ==
  /\ pc[r] = "write2"
  /\ WriteCall(r, Write2Text(new_4byte_json[r]), "write3")

\* new_file.write("\n}")
Write3(r) ==
  /\ pc[r] = "write3"
  /\ WriteCall(r, Write3Text, "close")

\* The buffer of the handle fills and is written out at the handle's offset,
\* at a moment the size of the text decides.
Flush(r) ==
  /\ outOpen[r]
  /\ buf[r] # <<>>
  /\ outFile' = WriteAt(outFile, pos[r], buf[r])
  /\ pos' = [pos EXCEPT ![r] = @ + Len(buf[r])]
  /\ buf' = [buf EXCEPT ![r] = <<>>]
  /\ lastWriter' = r
  /\ UNCHANGED <<inputFile, oldFile, pc, inOpen, function_signatures,
                 new_4byte_json, consumed, outOpen, stdout, failure, opens,
                 closes, closedContent, overlap, startedAfter>>

\* The end of the with block: close() writes the buffer out and closes the
\* file, or its flush raises.
CloseOutput(r) ==
  /\ pc[r] = "close"
  /\ \/ /\ outFile' = WriteAt(outFile, pos[r], buf[r])
        /\ lastWriter' = (IF buf[r] # <<>> THEN r ELSE lastWriter)
        /\ pos' = [pos EXCEPT ![r] = @ + Len(buf[r])]
        /\ buf' = [buf EXCEPT ![r] = <<>>]
        /\ outOpen' = [outOpen EXCEPT ![r] = FALSE]
        /\ closes' = [closes EXCEPT ![r] = @ + 1]
        /\ closedContent' = [closedContent EXCEPT ![r] = outFile']
        /\ pc' = [pc EXCEPT ![r] = "print"]
        /\ UNCHANGED failure
     \/ /\ CloseOnError(r)
        /\ UNCHANGED closedContent
  /\ UNCHANGED <<inputFile, oldFile, inOpen, function_signatures, new_4byte_json,
                 consumed, stdout, opens, overlap, startedAfter>>

\* A variant with the print inside the with block.
PrintInsideWith(r) ==
  /\ pc[r] = "close"
  /\ stdout[r] = <<>>
  /\ stdout' = [stdout EXCEPT ![r] = Append(@, SuccessMessage)]
  /\ UNCHANGED <<inputFile, oldFile, outFile, pc, inOpen, function_signatures,
                 new_4byte_json, consumed, outOpen, pos, buf, failure, opens,
                 closes, closedContent, lastWriter, overlap, startedAfter>>

\* print("Successfully recalculated ...")
PrintSuccess(r) ==
  /\ pc[r] = "print"
  /\ stdout' = [stdout EXCEPT ![r] = Append(@, SuccessMessage)]
  /\ pc' = [pc EXCEPT ![r] = "done"]
  /\ UNCHANGED <<inputFile, oldFile, outFile, inOpen, function_signatures,
                 new_4byte_json, consumed, outOpen, pos, buf, failure, opens,
                 closes, closedContent, lastWriter, overlap, startedAfter>>

Step(r) ==
  \/ OpenInput(r)
  \/ JsonLoad(r)
  \/ StartLoop(r)
  \/ LoopStep(r)
  \/ OpenOutput(r)
  \/ Write1(r)
  \/ Write2(r)
  \/ Write3(r)
  \/ Flush(r)
  \/ CloseOutput(r)
  \/ PrintSuccess(r)

\* One run.
Next == Step(1)

Spec == Init /\ [][Next]_vars

\* Two runs, their statements interleaved in any order.
NextShared == \E r \in Runs : Step(r)

SpecShared == InitShared /\ [][NextShared]_vars

\* ------------------------------------------------- reading the output file

RECURSIVE SplitLines(_)
\* The lines of a text: its pieces between line feeds.
SplitLines(content) ==
  IF \A i \in 1..Len(content) : content[i] # "\n" THEN <<content>>
  ELSE LET k == CHOOSE i \in 1..Len(content) :
                  /\ content[i] = "\n"
                  /\ \A j \in 1..(i - 1) : content[j] # "\n"
       IN <<SubSeq(content, 1, k - 1)>> \o SplitLines(SubSeq(content, k + 1, Len(content)))

\* A line without the comma that ends it.
StripComma(line) ==
  IF line # <<>> /\ line[Len(line)] = "," THEN SubSeq(line, 1, Len(line) - 1) ELSE line

\* The entries of an output text: the non-empty lines between its first line
\* and its last, each without the comma that joins it to the next.
Entries(content) ==
  LET lines == SplitLines(content)
      inner == SubSeq(lines, 2, Len(lines) - 1)
      kept == SelectSeq(inner, LAMBDA l : l # <<>>)
  IN [i \in 1..Len(kept) |-> IF i < Len(kept) THEN StripComma(kept[i]) ELSE kept[i]]

\* Whether a text is one object literal: "{" on the first line, "}" on the last.
Framed(content) ==
  LET lines == SplitLines(content)
  IN Len(lines) >= 3 /\ lines[1] = <<"{">> /\ lines[Len(lines)] = <<"}">>

\* The key of an entry: the 8 characters between its first two quotes.
KeyOf(entry) == SubSeq(entry, 2, 9)

\* The first 8 hex characters of the Keccak-256 digest of a signature.
ExpectedSelector(signature) == SubSeq(KeccakHexdigest(Utf8(signature)), 1, 8)

\* The entry the specification asks for: the quoted selector, a colon and a
\* space, the quoted signature as it is.
ExpectedEntry(signature) ==
  <<Quote>> \o ExpectedSelector(signature) \o <<Quote, ":", " ", Quote>>
    \o signature \o <<Quote>>

Items(r) == inputFile[r].items

Signatures(r) == [i \in 1..Len(Items(r)) |-> Items(r)[i].value]

Keys(r) == [i \in 1..Len(Items(r)) |-> Items(r)[i].key]

Succeeded(r) == pc[r] = "done"

\* The text a run handed to its three writes.
CompleteOutput(r) == Write1Text \o Write2Text(new_4byte_json[r]) \o Write3Text

\* ------------------------------------------------------------------ claims

\* C1: after a successful run the output file holds, for every entry of the
\* parsed input mapping, an entry whose key is the first 8 hex characters of
\* the hash of the signature and whose value is the signature, unchanged.
C1_EveryEntryRecomputed ==
  \A r \in Runs :
    Succeeded(r) =>
      \A i \in 1..Len(Items(r)) :
        \E j \in 1..Len(Entries(outFile)) :
          Entries(outFile)[j] = ExpectedEntry(Items(r)[i].value.chars)

\* A successful run whose input holds a signature with a double quote under
\* a key that is not its selector.
C1_Witness ==
  /\ Succeeded(1)
  /\ \E i \in 1..Len(Items(1)) :
       /\ Items(1)[i].value = JsonString(SigQuote)
       /\ Items(1)[i].key # ExpectedSelector(SigQuote)

\* C2: a run either succeeds and the output file holds every entry, or it
\* fails and the output file is as it was before the run.
C2_NoPartialOutput ==
  \A r \in Runs :
    /\ Succeeded(r) =>
         /\ Framed(outFile)
         /\ Len(Entries(outFile)) = Len(Items(r))
    /\ pc[r] = "failed" => outFile = oldFile

\* C3: the i-th entry line of the output is the entry built from the
\* signature of the i-th entry of the parsed input mapping.
C3_OrderPreserved ==
  \A r \in Runs :
    Succeeded(r) =>
      \A i \in 1..Len(Items(r)) :
        /\ i <= Len(Entries(outFile))
        /\ Entries(outFile)[i] = ExpectedEntry(Items(r)[i].value.chars)

\* A successful run over two entries with different signatures.
C3_Witness ==
  /\ Succeeded(1)
  /\ Len(Items(1)) = 2
  /\ Items(1)[1].value = JsonString(SigQuote)
  /\ Items(1)[2].value = JsonString(SigTransfer)

\* C7: a run prints the success message at most once, only when the output
\* file is written in full and closed, and a failed run printed nothing.
C7_MessageAfterClose ==
  \A r \in Runs :
    /\ Len(stdout[r]) <= 1
    /\ stdout[r] # <<>> =>
         /\ Succeeded(r)
         /\ ~outOpen[r]
         /\ closes[r] = 1
         /\ buf[r] = <<>>
         /\ Framed(outFile)
         /\ Len(Entries(outFile)) = Len(Items(r))
    /\ pc[r] = "failed" => stdout[r] = <<>>
    /\ Succeeded(r) => stdout[r] = <<SuccessMessage>>

\* A successful run over at least one entry, its message printed.
C7_Witness ==
  /\ Succeeded(1)
  /\ stdout[1] = <<SuccessMessage>>
  /\ Len(Items(1)) >= 1

\* C8: a run over the empty mapping fails at no statement that reads or
\* hashes, and when it ends well the output is "{", two line feeds and "}"
\* and the message is printed.
C8_EmptyInput ==
  \A r \in Runs :
    (inputFile[r].kind = "object" /\ Items(r) = <<>>) =>
      /\ failure[r] \notin {"open_input", "json_load", "items", "calculate_4byte_selector"}
      /\ Succeeded(r) =>
           /\ outFile = <<"{", "\n", "\n", "}">>
           /\ stdout[r] = <<SuccessMessage>>

\* A successful run over the empty mapping, the output file stale before it.
C8_Witness ==
  /\ Succeeded(1)
  /\ inputFile[1].kind = "object"
  /\ Items(1) = <<>>
  /\ oldFile = StaleContent

\* C10: the output has as many entries under each selector as the parsed
\* input mapping has entries whose signature hashes to it, and as many
\* entries in all as the mapping.
C10_NoDeduplication ==
  \A r \in Runs :
    Succeeded(r) =>
      /\ Len(Entries(outFile)) = Len(Items(r))
      /\ \A i \in 1..Len(Items(r)) :
           LET sel == ExpectedSelector(Items(r)[i].value.chars) IN
           Cardinality({j \in 1..Len(Entries(outFile)) : KeyOf(Entries(outFile)[j]) = sel})
             = Cardinality({k \in 1..Len(Items(r)) :
                              ExpectedSelector(Items(r)[k].value.chars) = sel})

\* A successful run over two signatures whose selectors collide: the output
\* holds two entries under one key.
C10_Witness ==
  /\ Succeeded(1)
  /\ Len(Items(1)) = 2
  /\ Items(1)[1].value = JsonString(SigTransfer)
  /\ Items(1)[2].value = JsonString(SigBabbage)
  /\ Len(Entries(outFile)) = 2
  /\ KeyOf(Entries(outFile)[1]) = KeyOf(Entries(outFile)[2])

\* C9: a run computes a selector only once the input file is parsed and
\* closed, opens the output file only once every selector is computed, opens
\* it at most once and closes it as often as it opened it, and a failure
\* while opening, parsing or hashing leaves the output file as it was.
C9_StageOrdering ==
  \A r \in Runs :
    /\ (consumed[r] > 0 \/ new_4byte_json[r] # <<>>) =>
         /\ ~inOpen[r]
         /\ function_signatures[r] = inputFile[r]
    /\ opens[r] >= 1 =>
         /\ Len(new_4byte_json[r]) = Len(Items(r))
         /\ consumed[r] = Len(Items(r))
    /\ opens[r] <= 1
    /\ closes[r] = (IF outOpen[r] THEN 0 ELSE opens[r])
    /\ pc[r] \in {"write1", "write2", "write3", "close"} => outOpen[r]
    /\ pc[r] \in {"print", "done"} => (opens[r] = 1 /\ closes[r] = 1)
    /\ failure[r] \in {"open_input", "json_load", "items", "calculate_4byte_selector"} =>
         (opens[r] = 0 /\ outFile = oldFile)

\* A run that failed at the hash of its second entry, the first selector
\* computed, the output file stale before it and untouched.
C9_Witness ==
  /\ failure[1] = "calculate_4byte_selector"
  /\ Len(new_4byte_json[1]) = 1
  /\ oldFile = StaleContent
  /\ outFile = StaleContent

OutputsDisjoint == ~overlap

\* C4: two runs whose parsed input mappings hold the same signatures in the
\* same order, each writing while the other does not hold the output file,
\* leave the same output file, whatever the keys of their inputs.
C4_KeyIndependence ==
  \A r1, r2 \in Runs :
    (/\ r1 # r2
     /\ Succeeded(r1)
     /\ Succeeded(r2)
     /\ OutputsDisjoint
     /\ Signatures(r1) = Signatures(r2)) =>
      closedContent[r1] = closedContent[r2]

\* Two successful runs over one signature under different keys.
C4_Witness ==
  /\ Succeeded(1)
  /\ Succeeded(2)
  /\ OutputsDisjoint
  /\ Len(Items(1)) = 1
  /\ Signatures(1) = Signatures(2)
  /\ Keys(1) # Keys(2)

BothSucceeded == Succeeded(1) /\ Succeeded(2)

\* C5 as stated: when two runs held the output file at once and both ended
\* well, the file holds the complete output of the run that wrote last.
C5_LastWriterWins ==
  (BothSucceeded /\ overlap) => outFile = CompleteOutput(lastWriter)

\* C5 as amended: when both runs ended well, the file holds the complete
\* output of the run that wrote last provided the two outputs are the same
\* text or the runs did not hold the file at once.
C5_LastWriterWinsSameOutput ==
  (BothSucceeded /\ (~overlap \/ CompleteOutput(1) = CompleteOutput(2))) =>
    (lastWriter \in Runs /\ outFile = CompleteOutput(lastWriter))

\* Two successful runs that held the output file at once and wrote the same
\* non-empty text over a stale file.
C5_Witness ==
  /\ BothSucceeded
  /\ overlap
  /\ CompleteOutput(1) = CompleteOutput(2)
  /\ Len(Items(1)) = 1
  /\ oldFile = StaleContent

\* C6: when a run starts after another has ended, both over the same input
\* and both ending well, each left the same text when it closed the file,
\* that text is the file, and nothing of the earlier content is in it.
C6_Idempotent ==
  \A r1, r2 \in Runs :
    (/\ r1 \in startedAfter[r2]
     /\ Succeeded(r1)
     /\ Succeeded(r2)
     /\ inputFile[r1] = inputFile[r2]) =>
      /\ closedContent[r1] = closedContent[r2]
      /\ outFile = closedContent[r2]
      /\ Framed(outFile)
      /\ \A i \in 1..Len(outFile) : outFile[i] # "#"

\* A second successful run over the same one-entry input as the first, which
\* found a longer stale file.
C6_Witness ==
  /\ 1 \in startedAfter[2]
  /\ BothSucceeded
  /\ inputFile[1] = inputFile[2]
  /\ Len(Items(1)) = 1
  /\ oldFile = StaleContent

====
